---- MODULE Spec2Model ----
(***************************************************************************)
(* buf-list: a list of byte chunks (BufList, src/src/lib.rs) and a         *)
(* seekable, readable Cursor over it (src/src/cursor/mod.rs).              *)
(*                                                                         *)
(* Slices and vectors are TLA+ sequences (1-based); the code's 0-based     *)
(* index i is element i + 1.  u64 / usize / i64 keep their wrap-around     *)
(* behaviour at a reduced width: u64 is 0 .. U64_MAX, i64 is               *)
(* I64_MIN .. I64_MAX with U64_MAX = 2 * I64_MAX + 1.                      *)
(***************************************************************************)
EXTENDS Integers, Sequences, FiniteSets, TLC

\* ------------------------------------------------------------------ bounds
HalfRange == 8          \* i64 is -HalfRange .. HalfRange - 1
MaxChunks == 3          \* chunks handed to BufList::from_iter
MaxChunkLen == 3        \* bytes per chunk handed to from_iter (0 allowed)
MaxBytes == 6           \* bytes in the list in total
MaxBufLen == 4          \* length of a read / read_exact destination
MaxSlots == 3           \* number of read_vectored destination slots
MaxSlotLen == 2         \* length of one read_vectored slot

I64_MIN == 0 - HalfRange
I64_MAX == HalfRange - 1
U64_MOD == 2 * HalfRange
U64_MAX == U64_MOD - 1

U64 == 0 .. U64_MAX
I64 == I64_MIN .. I64_MAX

\* ----------------------------------------------------------- std helpers
Min(a, b) == IF a < b THEN a ELSE b
Max(a, b) == IF a > b THEN a ELSE b

\* Option<u64>
None == [some |-> FALSE, v |-> 0]
Some(x) == [some |-> TRUE, v |-> x]

\* OptionLe with a strict comparison of the values
OptionLt(a, b) ==
  IF ~a.some THEN b.some
  ELSE IF ~b.some THEN FALSE
  ELSE a.v < b.v

\* derived PartialOrd of Option: None < Some(_), Some(a) <= Some(b) iff a <= b
OptionLe(a, b) ==
  IF ~a.some THEN TRUE
  ELSE IF ~b.some THEN FALSE
  ELSE a.v <= b.v

\* slice.get(i): the element at 0-based index i, or None
get(s, i) == IF i >= 0 /\ i < Len(s) THEN Some(s[i + 1]) ELSE None

\* &s[from..] and &s[..to] with 0-based bounds
SliceFrom(s, from) == SubSeq(s, from + 1, Len(s))
SliceTo(s, to) == SubSeq(s, 1, to)

\* slice::binary_search on a sorted slice: Ok(index of a match), or
\* Err(insertion point) = number of elements smaller than x
binary_search(s, x) ==
  IF \E i \in 1 .. Len(s) : s[i] = x
  THEN [ok |-> TRUE, idx |-> (CHOOSE i \in 1 .. Len(s) : s[i] = x) - 1]
  ELSE [ok |-> FALSE, idx |-> Cardinality({i \in 1 .. Len(s) : s[i] < x})]

\* checked_add that wraps around instead of reporting the overflow
wrapping_add(a, b) == Some((a + b) % U64_MOD)
\* saturating_sub that wraps around below zero
wrapping_sub(a, b) == (a - b) % U64_MOD

checked_add(a, b) == IF a + b > U64_MAX THEN None ELSE Some(a + b)
checked_sub(a, b) == IF a < b THEN None ELSE Some(a - b)
saturating_sub(a, b) == IF a < b THEN 0 ELSE a - b
\* i64::wrapping_neg and the cast `as u64`
wrapping_neg(x) == IF x = I64_MIN THEN I64_MIN ELSE 0 - x
as_u64(x) == x % U64_MOD

\* ------------------------------------------------------------ enum Offset
Value(x) == [eof |-> FALSE, v |-> x]
Eof == [eof |-> TRUE, v |-> 0]
\* impl From<Option<T>> for Offset<T>
OffsetFrom(o) == IF o.some THEN Value(o.v) ELSE Eof
\* the order Option has: the absent value below every present one
OffsetLt_eof_least(a, b) ==
  IF b.eof THEN FALSE
  ELSE IF a.eof THEN TRUE
  ELSE a.v < b.v

\* derived Ord: variants in declaration order (Value < Eof), then the value
OffsetLt(a, b) ==
  IF a.eof THEN FALSE
  ELSE IF b.eof THEN TRUE
  ELSE a.v < b.v

\* ---------------------------------------------------------------- BufList
RECURSIVE SumLens(_)
SumLens(chunks) ==
  IF chunks = <<>> THEN 0 ELSE Len(Head(chunks)) + SumLens(Tail(chunks))

\* Buf::remaining for BufList, and BufList::num_bytes
remaining(bufs) == SumLens(bufs)
num_chunks(bufs) == Len(bufs)
\* BufList::get_chunk(index)
get_chunk(bufs, i) == IF i >= 0 /\ i < Len(bufs) THEN [some |-> TRUE, v |-> bufs[i + 1]] ELSE [some |-> FALSE, v |-> <<>>]

\* a Bytes is the sequence of its bytes, each a cell [a, i, b]: byte b held at
\* index i of allocation a. Views that share storage hold the same cells; a
\* copy holds the same b in cells of another allocation.
NewBytes(a, len) ==
  [j \in 1 .. len |-> [a |-> a, i |-> j, b |-> a * (MaxChunkLen + 1) + j]]

\* Buf::advance for Bytes: the view drops its first cnt bytes
Bytes_advance(b, cnt) == SubSeq(b, cnt + 1, Len(b))

\* Buf::copy_to_bytes for Bytes: splits off the first len bytes as a view of
\* the same storage (a reference count bump), self keeps the rest
Bytes_copy_to_bytes(b, len) ==
  [buf |-> SubSeq(b, 1, len), first |-> SubSeq(b, len + 1, Len(b))]

\* BytesMut::put of a slice followed by freeze: the bytes are copied into the
\* buffer allocated by BytesMut::with_capacity, after the dst_len bytes it holds
BytesMut_extend(dst, src) ==
  dst \o [j \in 1 .. Len(src) |-> [a |-> 0, i |-> Len(dst) + j, b |-> src[j].b]]

\* push_chunk that stores the chunk whatever its length
push_chunk_always(bufs, data) ==
  [bufs |-> Append(bufs, data), bytes |-> data]

\* push_chunk that stores the chunk at the head of the queue
push_chunk_front(bufs, data) ==
  [bufs |-> IF Len(data) > 0 THEN <<data>> \o bufs ELSE bufs, bytes |-> data]

\* BufList::push_chunk: zero-length data is not stored
push_chunk(bufs, data) ==
  [bufs |-> IF Len(data) > 0 THEN Append(bufs, data) ELSE bufs, bytes |-> data]

\* FromIterator for BufList
RECURSIVE from_iter_loop(_, _)
from_iter_loop(bufs, items) ==
  IF items = <<>> THEN bufs
  ELSE from_iter_loop(push_chunk(bufs, Head(items)).bufs, Tail(items))
from_iter(items) == from_iter_loop(<<>>, items)

\* chunk that views the back of the queue
BufList_chunk_back(bufs) == IF bufs = <<>> THEN <<>> ELSE bufs[Len(bufs)]

\* Buf::chunk for BufList: the front chunk, empty for an empty list
BufList_chunk(bufs) == IF bufs = <<>> THEN <<>> ELSE bufs[1]

\* the loop of Buf::advance for BufList; self.bufs[0] on an empty queue panics
RECURSIVE advance_loop(_, _)
advance_loop(bufs, amt) ==
  IF ~(amt > 0) THEN [panicked |-> FALSE, bufs |-> bufs]
  ELSE IF bufs = <<>> THEN [panicked |-> TRUE, bufs |-> bufs]
  ELSE LET rem == Len(bufs[1]) IN
       IF rem > amt
       THEN [panicked |-> FALSE,
             bufs |-> <<Bytes_advance(bufs[1], amt)>> \o Tail(bufs)]
       ELSE advance_loop(Tail(bufs), amt - rem)

\* one iteration of the loop of Buf::advance for BufList, entered with amt > 0
advance_step(bufs, amt) ==
  IF bufs = <<>>
  THEN [panicked |-> TRUE, returned |-> FALSE, bufs |-> bufs, amt |-> amt]
  ELSE LET rem == Len(bufs[1]) IN
       IF rem > amt
       THEN [panicked |-> FALSE, returned |-> TRUE,
             bufs |-> <<Bytes_advance(bufs[1], amt)>> \o Tail(bufs), amt |-> amt]
       ELSE [panicked |-> FALSE, returned |-> FALSE,
             bufs |-> Tail(bufs), amt |-> amt - rem]

\* advance that stops on a chunk it has consumed to its last byte and leaves
\* it at the front
RECURSIVE advance_loop_keep_empty(_, _)
advance_loop_keep_empty(bufs, amt) ==
  IF ~(amt > 0) THEN [panicked |-> FALSE, bufs |-> bufs]
  ELSE IF bufs = <<>> THEN [panicked |-> TRUE, bufs |-> bufs]
  ELSE LET rem == Len(bufs[1]) IN
       IF rem >= amt
       THEN [panicked |-> FALSE,
             bufs |-> <<Bytes_advance(bufs[1], amt)>> \o Tail(bufs)]
       ELSE advance_loop_keep_empty(Tail(bufs), amt - rem)
advance_keep_empty(bufs, amt) == advance_loop_keep_empty(bufs, amt)

\* advance that returns once the queue is empty, whatever is left of amt
RECURSIVE advance_loop_saturating(_, _)
advance_loop_saturating(bufs, amt) ==
  IF ~(amt > 0) \/ bufs = <<>> THEN [panicked |-> FALSE, bufs |-> bufs]
  ELSE LET rem == Len(bufs[1]) IN
       IF rem > amt
       THEN [panicked |-> FALSE,
             bufs |-> <<Bytes_advance(bufs[1], amt)>> \o Tail(bufs)]
       ELSE advance_loop_saturating(Tail(bufs), amt - rem)
advance_saturating(bufs, amt) == advance_loop_saturating(bufs, amt)

\* Buf::advance for BufList
advance(bufs, amt) == advance_loop(bufs, amt)

\* the default Buf::chunks_vectored, which Bytes uses, on the slots from
\* 0-based index filled on: one slot for a view that has bytes remaining
Bytes_chunks_vectored(b, iovs, filled) ==
  IF Len(iovs) - filled = 0 THEN [n |-> 0, iovs |-> iovs]
  ELSE IF Len(b) > 0 THEN [n |-> 1, iovs |-> [iovs EXCEPT ![filled + 1] = b]]
  ELSE [n |-> 0, iovs |-> iovs]

\* the for loop of chunks_vectored over the chunks not yet visited
RECURSIVE chunks_vectored_loop(_, _, _)
chunks_vectored_loop(rest, iovs, filled) ==
  IF rest = <<>> THEN [n |-> filled, iovs |-> iovs]
  ELSE LET r == Bytes_chunks_vectored(Head(rest), iovs, filled) IN
       IF filled + r.n = Len(iovs)
       THEN [n |-> filled + r.n, iovs |-> r.iovs]
       ELSE chunks_vectored_loop(Tail(rest), r.iovs, filled + r.n)

\* chunks_vectored as the default of the Buf trait has it: the front chunk only
chunks_vectored_front_only(bufs, iovs) ==
  IF Len(iovs) = 0 THEN [n |-> 0, iovs |-> iovs]
  ELSE IF remaining(bufs) > 0
  THEN [n |-> 1, iovs |-> [iovs EXCEPT ![1] = BufList_chunk(bufs)]]
  ELSE [n |-> 0, iovs |-> iovs]

\* Buf::chunks_vectored for BufList
chunks_vectored(bufs, iovs) ==
  IF Len(iovs) = 0 THEN [n |-> 0, iovs |-> iovs]
  ELSE chunks_vectored_loop(bufs, iovs, 0)

\* buf.put(self.take(len)): while the Take has bytes remaining, copy its
\* current chunk (the front chunk, cut at the limit) and advance past it
RECURSIVE put_take(_, _, _)
put_take(bufs, limit, buf) ==
  IF Min(remaining(bufs), limit) = 0 THEN [bufs |-> bufs, buf |-> buf]
  ELSE LET c == BufList_chunk(bufs)
           cnt == Min(Len(c), limit)
       IN put_take(advance(bufs, cnt).bufs, limit - cnt,
                   BytesMut_extend(buf, SubSeq(c, 1, cnt)))

\* copy_to_bytes whose copying path leaves the list as it found it
copy_to_bytes_peek(bufs, len) ==
  IF bufs # <<>> /\ len <= Len(bufs[1])
  THEN LET s == Bytes_copy_to_bytes(bufs[1], len) IN
       [panicked |-> FALSE, zero_copy |-> TRUE, buf |-> s.buf,
        bufs |-> IF Len(s.first) = 0 THEN Tail(bufs) ELSE <<s.first>> \o Tail(bufs)]
  ELSE IF ~(len <= remaining(bufs))
  THEN [panicked |-> TRUE, zero_copy |-> FALSE, buf |-> <<>>, bufs |-> bufs]
  ELSE [panicked |-> FALSE, zero_copy |-> FALSE,
        buf |-> put_take(bufs, len, <<>>).buf, bufs |-> bufs]

\* the default Buf::copy_to_bytes: always the copying path
copy_to_bytes_default(bufs, len) ==
  IF ~(len <= remaining(bufs))
  THEN [panicked |-> TRUE, zero_copy |-> FALSE, buf |-> <<>>, bufs |-> bufs]
  ELSE LET p == put_take(bufs, len, <<>>) IN
       [panicked |-> FALSE, zero_copy |-> FALSE, buf |-> p.buf, bufs |-> p.bufs]

\* copy_to_bytes that takes the front chunk's path only when len is less than
\* the front chunk's length
copy_to_bytes_strict(bufs, len) ==
  IF bufs # <<>> /\ len < Len(bufs[1])
  THEN LET s == Bytes_copy_to_bytes(bufs[1], len) IN
       [panicked |-> FALSE, zero_copy |-> TRUE, buf |-> s.buf,
        bufs |-> IF Len(s.first) = 0 THEN Tail(bufs) ELSE <<s.first>> \o Tail(bufs)]
  ELSE IF ~(len <= remaining(bufs))
  THEN [panicked |-> TRUE, zero_copy |-> FALSE, buf |-> <<>>, bufs |-> bufs]
  ELSE LET p == put_take(bufs, len, <<>>) IN
       [panicked |-> FALSE, zero_copy |-> FALSE, buf |-> p.buf, bufs |-> p.bufs]

\* Buf::copy_to_bytes for BufList: a view of the front chunk when the request
\* fits it, the emptied front chunk popped; otherwise the assertion on len,
\* then a copy into a new buffer that advances the list
copy_to_bytes(bufs, len) ==
  IF bufs # <<>> /\ len <= Len(bufs[1])
  THEN LET s == Bytes_copy_to_bytes(bufs[1], len) IN
       [panicked |-> FALSE, zero_copy |-> TRUE, buf |-> s.buf,
        bufs |-> IF Len(s.first) = 0 THEN Tail(bufs) ELSE <<s.first>> \o Tail(bufs)]
  ELSE IF ~(len <= remaining(bufs))
  THEN [panicked |-> TRUE, zero_copy |-> FALSE, buf |-> <<>>, bufs |-> bufs]
  ELSE LET p == put_take(bufs, len, <<>>) IN
       [panicked |-> FALSE, zero_copy |-> FALSE, buf |-> p.buf, bufs |-> p.bufs]

RECURSIVE Concat(_)
Concat(chunks) ==
  IF chunks = <<>> THEN <<>> ELSE Head(chunks) \o Concat(Tail(chunks))

\* ------------------------------------------------------------- CursorData
\* CursorData::new
RECURSIVE new_loop(_, _, _)
new_loop(bufs, start_pos, next) ==
  IF bufs = <<>> THEN Append(start_pos, next)
  ELSE new_loop(Tail(bufs), Append(start_pos, next), next + Len(Head(bufs)))
\* new that records where each chunk ends instead of where it starts
RECURSIVE new_loop_ends(_, _, _)
new_loop_ends(bufs, start_pos, next) ==
  IF bufs = <<>> THEN Append(start_pos, next)
  ELSE new_loop_ends(Tail(bufs), Append(start_pos, next + Len(Head(bufs))),
                     next + Len(Head(bufs)))
CursorData_new_ends(bufs) ==
  [start_pos |-> new_loop_ends(bufs, <<>>, 0), chunk |-> 0, pos |-> 0]

CursorData_new(bufs) ==
  [start_pos |-> new_loop(bufs, <<>>, 0), chunk |-> 0, pos |-> 0]

\* CursorData::num_bytes: the last element of start_pos
num_bytes(cd) == cd.start_pos[Len(cd.start_pos)]

\* set_pos whose forward search forgets that the searched slice starts at
\* chunk + 1 when it hits a start position exactly
set_pos_forward_off_by_one(cd, new_pos) ==
  LET sp == cd.start_pos
      c == cd.chunk
  IN
  IF new_pos > cd.pos THEN
    LET next_start == OffsetFrom(get(sp, c + 1)) IN
    IF OffsetLt(Value(new_pos), next_start)
    THEN [cd EXCEPT !.pos = new_pos]
    ELSE LET r == binary_search(SliceFrom(sp, c + 1), new_pos) IN
         IF r.ok
         THEN [cd EXCEPT !.chunk = c + r.idx, !.pos = new_pos]
         ELSE [cd EXCEPT !.chunk = c + r.idx, !.pos = new_pos]
  ELSE IF new_pos = cd.pos THEN [cd EXCEPT !.pos = new_pos]
  ELSE
    IF OptionLe(get(sp, c), Some(new_pos))
    THEN [cd EXCEPT !.pos = new_pos]
    ELSE LET r == binary_search(SliceTo(sp, c), new_pos) IN
         IF r.ok
         THEN [cd EXCEPT !.chunk = r.idx, !.pos = new_pos]
         ELSE [cd EXCEPT !.chunk = r.idx - 1, !.pos = new_pos]

\* set_pos whose backward search takes the insertion point as the chunk
set_pos_backward_insertion_point(cd, new_pos) ==
  LET sp == cd.start_pos
      c == cd.chunk
  IN
  IF new_pos > cd.pos THEN
    LET next_start == OffsetFrom(get(sp, c + 1)) IN
    IF OffsetLt(Value(new_pos), next_start)
    THEN [cd EXCEPT !.pos = new_pos]
    ELSE LET r == binary_search(SliceFrom(sp, c + 1), new_pos) IN
         IF r.ok
         THEN [cd EXCEPT !.chunk = c + 1 + r.idx, !.pos = new_pos]
         ELSE [cd EXCEPT !.chunk = c + r.idx, !.pos = new_pos]
  ELSE IF new_pos = cd.pos THEN [cd EXCEPT !.pos = new_pos]
  ELSE
    IF OptionLe(get(sp, c), Some(new_pos))
    THEN [cd EXCEPT !.pos = new_pos]
    ELSE LET r == binary_search(SliceTo(sp, c), new_pos) IN
         [cd EXCEPT !.chunk = r.idx, !.pos = new_pos]

\* set_pos whose forward same-chunk test lets the next chunk's start through
set_pos_forward_inclusive(cd, new_pos) ==
  LET sp == cd.start_pos
      c == cd.chunk
  IN
  IF new_pos > cd.pos THEN
    LET next_start == OffsetFrom(get(sp, c + 1)) IN
    IF OffsetLt(Value(new_pos), next_start) \/ Value(new_pos) = next_start
    THEN [cd EXCEPT !.pos = new_pos]
    ELSE LET r == binary_search(SliceFrom(sp, c + 1), new_pos) IN
         IF r.ok
         THEN [cd EXCEPT !.chunk = c + 1 + r.idx, !.pos = new_pos]
         ELSE [cd EXCEPT !.chunk = c + r.idx, !.pos = new_pos]
  ELSE IF new_pos = cd.pos THEN [cd EXCEPT !.pos = new_pos]
  ELSE
    IF OptionLe(get(sp, c), Some(new_pos))
    THEN [cd EXCEPT !.pos = new_pos]
    ELSE LET r == binary_search(SliceTo(sp, c), new_pos) IN
         IF r.ok
         THEN [cd EXCEPT !.chunk = r.idx, !.pos = new_pos]
         ELSE [cd EXCEPT !.chunk = r.idx - 1, !.pos = new_pos]

\* CursorData::set_pos
set_pos(cd, new_pos) ==
  LET sp == cd.start_pos
      c == cd.chunk
  IN
  IF new_pos > cd.pos THEN
    LET next_start == OffsetFrom(get(sp, c + 1)) IN
    IF OffsetLt(Value(new_pos), next_start)
    THEN [cd EXCEPT !.pos = new_pos]
    ELSE LET r == binary_search(SliceFrom(sp, c + 1), new_pos) IN
         IF r.ok
         THEN [cd EXCEPT !.chunk = c + 1 + r.idx, !.pos = new_pos]
         ELSE [cd EXCEPT !.chunk = c + r.idx, !.pos = new_pos]
  ELSE IF new_pos = cd.pos THEN [cd EXCEPT !.pos = new_pos]
  ELSE
    IF OptionLe(get(sp, c), Some(new_pos))
    THEN [cd EXCEPT !.pos = new_pos]
    ELSE LET r == binary_search(SliceTo(sp, c), new_pos) IN
         IF r.ok
         THEN [cd EXCEPT !.chunk = r.idx, !.pos = new_pos]
         ELSE [cd EXCEPT !.chunk = r.idx - 1, !.pos = new_pos]

\* the slice bounds and debug_assert!s on the path set_pos takes to new_pos:
\* the slices start_pos[chunk + 1..] and start_pos[..chunk] are in bounds and
\* an insertion point the search reports is at least 1
set_pos_checks(cd, new_pos) ==
  LET sp == cd.start_pos
      c == cd.chunk
  IN
  IF new_pos > cd.pos THEN
    LET next_start == OffsetFrom(get(sp, c + 1)) IN
    IF OffsetLt(Value(new_pos), next_start) THEN TRUE
    ELSE /\ c + 1 <= Len(sp)
         /\ LET r == binary_search(SliceFrom(sp, c + 1), new_pos) IN
            r.ok \/ r.idx > 0
  ELSE IF new_pos = cd.pos THEN TRUE
  ELSE
    IF OptionLe(get(sp, c), Some(new_pos)) THEN TRUE
    ELSE /\ c <= Len(sp)
         /\ LET r == binary_search(SliceTo(sp, c), new_pos) IN
            r.ok \/ r.idx > 0

\* the debug_assert! of get_chunk_and_pos, the index start_pos[chunk] and the
\* subtraction pos - start_pos[chunk], when the list has a chunk at the index
get_chunk_and_pos_checks(cd, list) ==
  get_chunk(list, cd.chunk).some =>
    /\ cd.pos < num_bytes(cd)
    /\ cd.chunk < Len(cd.start_pos)
    /\ cd.pos >= cd.start_pos[cd.chunk + 1]

\* the slice &chunk_bytes[chunk_pos..(chunk_pos + n_to_copy)] of read_impl
\* for a destination with room bytes left
read_impl_checks(cd, list, room) ==
  LET g == get_chunk(list, cd.chunk) IN
  (g.some /\ cd.chunk < Len(cd.start_pos)) =>
    LET chunk_pos == cd.pos - cd.start_pos[cd.chunk + 1]
        n_to_copy == Min(Len(g.v) - chunk_pos, room)
    IN
    /\ chunk_pos >= 0
    /\ chunk_pos <= Len(g.v)
    /\ chunk_pos <= chunk_pos + n_to_copy
    /\ chunk_pos + n_to_copy <= Len(g.v)

\* CursorData::get_chunk_and_pos
get_chunk_and_pos(cd, list) ==
  LET g == get_chunk(list, cd.chunk) IN
  IF g.some
  THEN [some |-> TRUE, chunk |-> g.v, chunk_pos |-> cd.pos - cd.start_pos[cd.chunk + 1]]
  ELSE [some |-> FALSE, chunk |-> <<>>, chunk_pos |-> 0]

\* copy_from_slice that starts one byte late in the source
copy_from_slice_shifted(buf, buf_pos, src, src_from, n) ==
  [i \in 1 .. Len(buf) |->
     IF i > buf_pos /\ i <= buf_pos + n
     THEN (IF src_from + (i - buf_pos) < Len(src) THEN src[src_from + (i - buf_pos) + 1] ELSE 0)
     ELSE buf[i]]

\* dest.copy_from_slice(&src[src_from .. src_from + n]) with dest = &mut buf[buf_pos .. buf_pos + n]
copy_from_slice(buf, buf_pos, src, src_from, n) ==
  [i \in 1 .. Len(buf) |->
     IF i > buf_pos /\ i <= buf_pos + n THEN src[src_from + (i - buf_pos)] ELSE buf[i]]

\* read_step that also moves the chunk's start position up to the bytes
\* already read, as a draining reader would
read_step_drain(cd, g, buf, buf_pos) ==
  LET n_to_copy == Min(Len(g.chunk) - g.chunk_pos, Len(buf) - buf_pos) IN
  [cd |-> [cd EXCEPT !.pos = cd.pos + n_to_copy,
                     !.chunk = IF n_to_copy = Len(g.chunk) - g.chunk_pos
                               THEN cd.chunk + 1 ELSE cd.chunk,
                     !.start_pos[cd.chunk + 1] = cd.pos + n_to_copy],
   buf |-> copy_from_slice(buf, buf_pos, g.chunk, g.chunk_pos, n_to_copy),
   buf_pos |-> buf_pos + n_to_copy]

\* read_step that moves to the next chunk only when the bytes copied are as
\* many as the chunk holds
read_step_whole_chunk_test(cd, g, buf, buf_pos) ==
  LET n_to_copy == Min(Len(g.chunk) - g.chunk_pos, Len(buf) - buf_pos) IN
  [cd |-> [cd EXCEPT !.pos = cd.pos + n_to_copy,
                     !.chunk = IF n_to_copy = Len(g.chunk)
                               THEN cd.chunk + 1 ELSE cd.chunk],
   buf |-> copy_from_slice(buf, buf_pos, g.chunk, g.chunk_pos, n_to_copy),
   buf_pos |-> buf_pos + n_to_copy]

\* one iteration of the loop of read_impl: copy from the current chunk
read_step(cd, g, buf, buf_pos) ==
  LET n_to_copy == Min(Len(g.chunk) - g.chunk_pos, Len(buf) - buf_pos) IN
  [cd |-> [cd EXCEPT !.pos = cd.pos + n_to_copy,
                     !.chunk = IF n_to_copy = Len(g.chunk) - g.chunk_pos
                               THEN cd.chunk + 1 ELSE cd.chunk],
   buf |-> copy_from_slice(buf, buf_pos, g.chunk, g.chunk_pos, n_to_copy),
   buf_pos |-> buf_pos + n_to_copy]

\* CursorData::read_impl: the while loop, then the count
RECURSIVE read_loop(_, _, _, _)
read_loop(cd, list, buf, buf_pos) ==
  IF ~(buf_pos < Len(buf)) THEN [cd |-> cd, buf |-> buf, n |-> buf_pos]
  ELSE LET g == get_chunk_and_pos(cd, list) IN
       IF ~g.some THEN [cd |-> cd, buf |-> buf, n |-> buf_pos]
       ELSE LET s == read_step(cd, g, buf, buf_pos) IN
            read_loop(s.cd, list, s.buf, s.buf_pos)

\* read_impl that copies from at most one chunk per call
read_impl_one_chunk(cd, list, buf) ==
  IF ~(0 < Len(buf)) THEN [cd |-> cd, buf |-> buf, n |-> 0]
  ELSE LET g == get_chunk_and_pos(cd, list) IN
       IF ~g.some THEN [cd |-> cd, buf |-> buf, n |-> 0]
       ELSE LET s == read_step(cd, g, buf, 0) IN
            [cd |-> s.cd, buf |-> s.buf, n |-> s.buf_pos]

\* read_impl that reports end of data once the cursor is in the last chunk
read_impl_skip_last(cd, list, buf) ==
  IF cd.chunk + 1 >= Len(list) THEN [cd |-> cd, buf |-> buf, n |-> 0]
  ELSE read_loop(cd, list, buf, 0)

read_impl(cd, list, buf) == read_loop(cd, list, buf, 0)

\* CursorData::read_vectored_impl: bufs is the slice of destination slots,
\* done the slots already visited
RECURSIVE read_vectored_loop(_, _, _, _, _)
read_vectored_loop(cd, list, bufs, done, nread) ==
  IF bufs = <<>> THEN [cd |-> cd, bufs |-> done, n |-> nread]
  ELSE LET r == read_impl(cd, list, Head(bufs)) IN
       IF r.n < Len(Head(bufs))
       THEN [cd |-> r.cd, bufs |-> Append(done, r.buf) \o Tail(bufs), n |-> nread + r.n]
       ELSE read_vectored_loop(r.cd, list, Tail(bufs), Append(done, r.buf), nread + r.n)

\* read_vectored_impl that takes a slot that received nothing as the end of
\* the data
RECURSIVE read_vectored_loop_stop_on_zero(_, _, _, _, _)
read_vectored_loop_stop_on_zero(cd, list, bufs, done, nread) ==
  IF bufs = <<>> THEN [cd |-> cd, bufs |-> done, n |-> nread]
  ELSE LET r == read_impl(cd, list, Head(bufs)) IN
       IF r.n < Len(Head(bufs)) \/ r.n = 0
       THEN [cd |-> r.cd, bufs |-> Append(done, r.buf) \o Tail(bufs), n |-> nread + r.n]
       ELSE read_vectored_loop_stop_on_zero(r.cd, list, Tail(bufs), Append(done, r.buf), nread + r.n)

read_vectored_impl_stop_on_zero(cd, list, bufs) ==
  read_vectored_loop_stop_on_zero(cd, list, bufs, <<>>, 0)

read_vectored_impl(cd, list, bufs) == read_vectored_loop(cd, list, bufs, <<>>, 0)

Ok(x) == [kind |-> "Ok", val |-> x, remaining |-> 0, buf_len |-> 0]
Unit == Ok(0)
Err(kind) == [kind |-> kind, val |-> 0, remaining |-> 0, buf_len |-> 0]
NoRes == Err("None")

\* read_exact_impl that reads what is there before it reports the shortfall
read_exact_impl_partial(cd, list, buf) ==
  LET rem == saturating_sub(num_bytes(cd), cd.pos)
      buf_len == Len(buf)
      r == read_impl(cd, list, buf)
  IN
  IF rem < buf_len
  THEN [res |-> [kind |-> "UnexpectedEof", val |-> 0, remaining |-> rem, buf_len |-> buf_len],
        cd |-> r.cd, buf |-> r.buf]
  ELSE [res |-> Unit, cd |-> r.cd, buf |-> r.buf]

\* CursorData::read_exact_impl
read_exact_impl(cd, list, buf) ==
  LET rem == saturating_sub(num_bytes(cd), cd.pos)
      buf_len == Len(buf)
  IN
  IF rem < buf_len
  THEN [res |-> [kind |-> "UnexpectedEof", val |-> 0, remaining |-> rem, buf_len |-> buf_len],
        cd |-> cd, buf |-> buf]
  ELSE LET r == read_impl(cd, list, buf) IN
       [res |-> Unit, cd |-> r.cd, buf |-> r.buf]

\* fill_buf_impl that returns the current chunk from its first byte
fill_buf_impl_whole_chunk(cd, list) ==
  LET g == get_chunk_and_pos(cd, list) IN
  IF g.some THEN g.chunk ELSE <<>>

\* CursorData::fill_buf_impl
fill_buf_impl(cd, list) ==
  LET g == get_chunk_and_pos(cd, list) IN
  IF g.some THEN SubSeq(g.chunk, g.chunk_pos + 1, Len(g.chunk)) ELSE <<>>

\* seek_impl that moves to the nearest valid position before it reports an
\* invalid seek
seek_impl_clamp(cd, style, n) ==
  IF style = "Start"
  THEN [res |-> Ok(n), cd |-> set_pos(cd, n)]
  ELSE LET base_pos == IF style = "End" THEN num_bytes(cd) ELSE cd.pos
           new_pos == IF n >= 0
                      THEN checked_add(base_pos, as_u64(n))
                      ELSE checked_sub(base_pos, as_u64(wrapping_neg(n)))
       IN
       IF new_pos.some
       THEN [res |-> Ok(set_pos(cd, new_pos.v).pos), cd |-> set_pos(cd, new_pos.v)]
       ELSE [res |-> Err("InvalidInput"), cd |-> set_pos(cd, IF n >= 0 THEN U64_MAX ELSE 0)]

\* seek_impl that takes the end of the list as the base of a relative seek
seek_impl_current_from_end(cd, style, n) ==
  IF style = "Start"
  THEN [res |-> Ok(n), cd |-> set_pos(cd, n)]
  ELSE LET base_pos == num_bytes(cd)
           new_pos == IF n >= 0
                      THEN checked_add(base_pos, as_u64(n))
                      ELSE checked_sub(base_pos, as_u64(wrapping_neg(n)))
       IN
       IF new_pos.some
       THEN [res |-> Ok(set_pos(cd, new_pos.v).pos), cd |-> set_pos(cd, new_pos.v)]
       ELSE [res |-> Err("InvalidInput"), cd |-> cd]

\* CursorData::seek_impl; style is "Start" with n in u64, or "End" / "Current"
\* with n in i64
seek_impl(cd, style, n) ==
  IF style = "Start"
  THEN [res |-> Ok(n), cd |-> set_pos(cd, n)]
  ELSE LET base_pos == IF style = "End" THEN num_bytes(cd) ELSE cd.pos
           new_pos == IF n >= 0
                      THEN checked_add(base_pos, as_u64(n))
                      ELSE checked_sub(base_pos, as_u64(wrapping_neg(n)))
       IN
       IF new_pos.some
       THEN [res |-> Ok(set_pos(cd, new_pos.v).pos), cd |-> set_pos(cd, new_pos.v)]
       ELSE [res |-> Err("InvalidInput"), cd |-> cd]

\* CursorData::consume_impl: `self.pos + amt as u64` panics on overflow in a
\* build with overflow checks and wraps in a build without them
consume_impl(cd, amt, overflow_checks) ==
  IF cd.pos + amt > U64_MAX /\ overflow_checks
  THEN [panicked |-> TRUE, cd |-> cd]
  ELSE [panicked |-> FALSE, cd |-> set_pos(cd, (cd.pos + amt) % U64_MOD)]

\* CursorData::assert_invariants (cfg(test))
assert_invariants(cd) ==
  /\ cd.pos >= cd.start_pos[cd.chunk + 1]
  /\ OffsetLt(Value(cd.pos), OffsetFrom(get(cd.start_pos, cd.chunk + 1)))

\* -------------------------------------------------------- reference cursor
\* A cursor over one contiguous slice (std::io::Cursor<&[u8]>): the state is
\* the position alone.
upstream_remaining_slice(bytes, p) == SubSeq(bytes, Min(p, Len(bytes)) + 1, Len(bytes))

upstream_read(bytes, p, buf) ==
  LET slice == upstream_remaining_slice(bytes, p)
      amt == Min(Len(buf), Len(slice))
  IN [pos |-> p + amt, buf |-> copy_from_slice(buf, 0, slice, 0, amt), n |-> amt]

RECURSIVE upstream_read_vectored_loop(_, _, _, _, _)
upstream_read_vectored_loop(bytes, p, bufs, done, nread) ==
  IF bufs = <<>> THEN [pos |-> p, bufs |-> done, n |-> nread]
  ELSE LET r == upstream_read(bytes, p, Head(bufs)) IN
       IF r.n < Len(Head(bufs))
       THEN [pos |-> r.pos, bufs |-> Append(done, r.buf) \o Tail(bufs), n |-> nread + r.n]
       ELSE upstream_read_vectored_loop(bytes, r.pos, Tail(bufs), Append(done, r.buf), nread + r.n)

upstream_read_vectored(bytes, p, bufs) == upstream_read_vectored_loop(bytes, p, bufs, <<>>, 0)

upstream_read_exact(bytes, p, buf) ==
  IF Len(buf) > Len(upstream_remaining_slice(bytes, p))
  THEN [res |-> Err("UnexpectedEof"), pos |-> p, buf |-> buf]
  ELSE [res |-> Unit, pos |-> p + Len(buf), buf |-> upstream_read(bytes, p, buf).buf]

upstream_seek(bytes, p, style, n) ==
  IF style = "Start" THEN [res |-> Ok(n), pos |-> n]
  ELSE LET base_pos == IF style = "End" THEN Len(bytes) ELSE p
           new_pos == base_pos + n
       IN IF new_pos < 0 \/ new_pos > U64_MAX
          THEN [res |-> Err("InvalidInput"), pos |-> p]
          ELSE [res |-> Ok(new_pos), pos |-> new_pos]

upstream_consume(p, amt) == (p + amt) % U64_MOD

\* ------------------------------------------------------------------ state
VARIABLES
  inner,          \* Cursor.inner: the BufList's bufs, a sequence of chunks
  start_pos,      \* CursorData.start_pos
  chunk,          \* CursorData.chunk
  pos,            \* CursorData.pos
  upstream_pos,   \* position of the reference cursor over the concatenation
  last,           \* the last operation: inputs, state before, outcome
  bufs,           \* BufList.bufs of a list its owner mutates through Buf
  buf_last        \* the last call on that list, and the call before it

vars == <<inner, start_pos, chunk, pos, upstream_pos, last, bufs, buf_last>>
cursor_vars == <<inner, start_pos, chunk, pos, upstream_pos, last>>
buf_vars == <<bufs, buf_last>>

\* no call has been made on the list yet
NoCall == [op |-> "none", data |-> <<>>, pre |-> <<>>]

BufRecord(op, arg, x, panicked, out, zero_copy) ==
  [op |-> op, arg |-> arg, data |-> x, pre |-> bufs,
   res |-> IF panicked THEN "Panic" ELSE "Ok",
   out |-> out, zero_copy |-> zero_copy, prev |-> buf_last.prev]

\* BufList::new()
BufList_new == <<>>
BufNew ==
  [op |-> "new", arg |-> 0, data |-> <<>>, pre |-> <<>>, res |-> "Ok",
   out |-> <<>>, zero_copy |-> FALSE, prev |-> NoCall]

data == [start_pos |-> start_pos, chunk |-> chunk, pos |-> pos]

Record(op, style, arg, lens, res, out, up_res, up_out) ==
  [op |-> op, style |-> style, arg |-> arg, lens |-> lens,
   pre_pos |-> pos, pre_chunk |-> chunk,
   res |-> res, out |-> out, up_res |-> up_res, up_out |-> up_out]

\* the chunk lists a test run starts from: chunk k holds the next Len bytes of
\* the stream 1, 2, 3, ...; every byte of the stream is distinct
RECURSIVE MkItems(_, _)
MkItems(lens, next) ==
  IF lens = <<>> THEN <<>>
  ELSE <<[j \in 1 .. Head(lens) |-> next + j]>> \o MkItems(Tail(lens), next + Head(lens))

RECURSIVE Sum(_)
Sum(lens) == IF lens = <<>> THEN 0 ELSE Head(lens) + Sum(Tail(lens))

LenSeqs ==
  {lens \in UNION {[1 .. k -> 0 .. MaxChunkLen] : k \in 0 .. MaxChunks} : Sum(lens) <= MaxBytes}

Init ==
  \E lens \in LenSeqs :
    /\ inner = from_iter(MkItems(lens, 0))
    /\ start_pos = CursorData_new(inner).start_pos
    /\ chunk = CursorData_new(inner).chunk
    /\ pos = CursorData_new(inner).pos
    /\ upstream_pos = 0
    /\ last = [op |-> "new", style |-> "", arg |-> 0, lens |-> <<>>,
               pre_pos |-> 0, pre_chunk |-> 0,
               res |-> NoRes, out |-> <<>>, up_res |-> NoRes, up_out |-> <<>>]
    /\ bufs = BufList_new
    /\ buf_last = BufNew

\* no call is in progress and the process has not been aborted by a panic:
\* the caller has dropped the previous call's result and destination
Idle == last.op = "idle"
Running == Idle

\* a zeroed destination of the given length (vec![0u8; len])
Zeroed(len) == [i \in 1 .. len |-> 0]
SlotLens == UNION {[1 .. k -> 0 .. MaxSlotLen] : k \in 0 .. MaxSlots}

\* the contiguous copy the reference cursor reads
bytes == Concat(inner)

\* Cursor::set_position
SetPosition ==
  \E p \in U64 :
    LET cd == set_pos(data, p) IN
    /\ Running
    /\ chunk' = cd.chunk
    /\ pos' = cd.pos
    /\ upstream_pos' = p
    /\ last' = Record("set_position", "", p, <<>>, Unit, <<>>, Unit, <<>>)
    /\ start_pos' = cd.start_pos
    /\ UNCHANGED <<inner, bufs, buf_last>>

\* io::Seek::seek
Seek ==
  \E style \in {"Start", "End", "Current"} :
    \E n \in (IF style = "Start" THEN U64 ELSE I64) :
      LET r == seek_impl(data, style, n)
          u == upstream_seek(bytes, upstream_pos, style, n)
      IN
      /\ Running
      /\ chunk' = r.cd.chunk
      /\ pos' = r.cd.pos
      /\ upstream_pos' = u.pos
      /\ last' = Record("seek", style, n, <<>>, r.res, <<>>, u.res, <<>>)
      /\ start_pos' = r.cd.start_pos
      /\ UNCHANGED <<inner, bufs, buf_last>>

\* io::Read::read
Read ==
  \E len \in 0 .. MaxBufLen :
    LET r == read_impl(data, inner, Zeroed(len))
        u == upstream_read(bytes, upstream_pos, Zeroed(len))
    IN
    /\ Running
    /\ chunk' = r.cd.chunk
    /\ pos' = r.cd.pos
    /\ upstream_pos' = u.pos
    /\ last' = Record("read", "", len, <<len>>, Ok(r.n), <<r.buf>>, Ok(u.n), <<u.buf>>)
    /\ start_pos' = r.cd.start_pos
    /\ UNCHANGED <<inner, bufs, buf_last>>

\* io::Read::read_vectored
ReadVectored ==
  \E lens \in SlotLens :
    LET slots == [i \in 1 .. Len(lens) |-> Zeroed(lens[i])]
        r == read_vectored_impl(data, inner, slots)
        u == upstream_read_vectored(bytes, upstream_pos, slots)
    IN
    /\ Running
    /\ chunk' = r.cd.chunk
    /\ pos' = r.cd.pos
    /\ upstream_pos' = u.pos
    /\ last' = Record("read_vectored", "", Len(lens), lens, Ok(r.n), r.bufs, Ok(u.n), u.bufs)
    /\ start_pos' = r.cd.start_pos
    /\ UNCHANGED <<inner, bufs, buf_last>>

\* io::Read::read_exact
ReadExact ==
  \E len \in 0 .. MaxBufLen :
    LET r == read_exact_impl(data, inner, Zeroed(len))
        u == upstream_read_exact(bytes, upstream_pos, Zeroed(len))
    IN
    /\ Running
    /\ chunk' = r.cd.chunk
    /\ pos' = r.cd.pos
    /\ upstream_pos' = u.pos
    /\ last' = Record("read_exact", "", len, <<len>>, r.res, <<r.buf>>, u.res, <<u.buf>>)
    /\ start_pos' = r.cd.start_pos
    /\ UNCHANGED <<inner, bufs, buf_last>>

\* io::BufRead::fill_buf
FillBuf ==
  /\ Running
  /\ last' = Record("fill_buf", "", 0, <<>>, Unit, <<fill_buf_impl(data, inner)>>, Unit, <<>>)
  /\ UNCHANGED <<inner, start_pos, chunk, pos, upstream_pos, bufs, buf_last>>

\* io::BufRead::consume; a panic of the cursor ends the run before the
\* reference cursor is called
Consume ==
  \E amt \in U64 :
    \E overflow_checks \in BOOLEAN :
      LET r == consume_impl(data, amt, overflow_checks) IN
      /\ Running
      /\ chunk' = r.cd.chunk
      /\ pos' = r.cd.pos
      /\ upstream_pos' = IF r.panicked THEN upstream_pos ELSE upstream_consume(upstream_pos, amt)
      /\ last' = Record("consume", "", amt, <<>>,
                        IF r.panicked THEN Err("Panic") ELSE Unit, <<>>,
                        IF r.panicked THEN NoRes ELSE Unit, <<>>)
      /\ start_pos' = r.cd.start_pos
      /\ UNCHANGED <<inner, bufs, buf_last>>

\* the caller is done with the outcome of the last call (the end of
\* apply_and_compare: results and destination buffers go out of scope); a
\* panic is never returned from
Return ==
  /\ last.op # "idle"
  /\ last.res.kind # "Panic"
  /\ last' = [op |-> "idle", style |-> "", arg |-> 0, lens |-> <<>>,
              pre_pos |-> 0, pre_chunk |-> 0,
              res |-> NoRes, out |-> <<>>, up_res |-> NoRes, up_out |-> <<>>]
  /\ UNCHANGED <<inner, start_pos, chunk, pos, upstream_pos, bufs, buf_last>>

Next ==
  \/ Return
  \/ SetPosition
  \/ Seek
  \/ Read
  \/ ReadVectored
  \/ ReadExact
  \/ FillBuf
  \/ Consume

Spec == Init /\ [][Next]_vars

\* ---- a BufList mutated through push_chunk and the Buf trait ----

\* the list starts empty; no cursor is in use
BufInit ==
  /\ bufs = BufList_new
  /\ buf_last = BufNew
  /\ inner = <<>>
  /\ start_pos = CursorData_new(inner).start_pos
  /\ chunk = CursorData_new(inner).chunk
  /\ pos = CursorData_new(inner).pos
  /\ upstream_pos = 0
  /\ last = [op |-> "idle", style |-> "", arg |-> 0, lens |-> <<>>,
             pre_pos |-> 0, pre_chunk |-> 0,
             res |-> NoRes, out |-> <<>>, up_res |-> NoRes, up_out |-> <<>>]

BufIdle == buf_last.op = "idle"

\* an allocation no chunk of the list is a view of
FreshAlloc ==
  CHOOSE a \in 1 .. Len(bufs) + 1 :
    /\ \A j \in 1 .. Len(bufs) : \A k \in 1 .. Len(bufs[j]) : bufs[j][k].a # a
    /\ \A a2 \in 1 .. a - 1 :
         \E j \in 1 .. Len(bufs) : \E k \in 1 .. Len(bufs[j]) : bufs[j][k].a = a2

\* BufList::push_chunk
PushChunk ==
  \E len \in 0 .. MaxChunkLen :
    LET x == NewBytes(FreshAlloc, len)
        r == push_chunk(bufs, x)
    IN
    /\ BufIdle
    /\ Len(bufs) < MaxChunks
    /\ remaining(bufs) + len <= MaxBytes
    /\ bufs' = r.bufs
    /\ buf_last' = BufRecord("push_chunk", len, x, FALSE, r.bytes, FALSE)
    /\ UNCHANGED cursor_vars

\* Buf::advance on the list
Advance ==
  \E amt \in 0 .. remaining(bufs) + 1 :
    LET r == advance(bufs, amt) IN
    /\ BufIdle
    /\ bufs' = r.bufs
    /\ buf_last' = BufRecord("advance", amt, <<>>, r.panicked, <<>>, FALSE)
    /\ UNCHANGED cursor_vars

\* Buf::copy_to_bytes on the list
CopyToBytes ==
  \E len \in 0 .. remaining(bufs) + 1 :
    LET r == copy_to_bytes(bufs, len) IN
    /\ BufIdle
    /\ bufs' = r.bufs
    /\ buf_last' = BufRecord("copy_to_bytes", len, <<>>, r.panicked, r.buf, r.zero_copy)
    /\ UNCHANGED cursor_vars

\* an IoSlice as the caller hands it in: a view of a buffer of its own
Untouched == <<[a |-> 0 - 1, i |-> 1, b |-> 0]>>

\* Buf::chunk on the list
Chunk ==
  /\ BufIdle
  /\ buf_last' = BufRecord("chunk", 0, <<>>, FALSE, BufList_chunk(bufs), FALSE)
  /\ UNCHANGED <<bufs, cursor_vars>>

\* Buf::chunks_vectored on the list
ChunksVectored ==
  \E k \in 0 .. MaxSlots :
    LET r == chunks_vectored(bufs, [i \in 1 .. k |-> Untouched]) IN
    /\ BufIdle
    /\ buf_last' = BufRecord("chunks_vectored", k, <<>>, FALSE, r, FALSE)
    /\ UNCHANGED <<bufs, cursor_vars>>

\* the caller is done with the call's result and goes on to its next call,
\* which follows this one immediately; a panic ends the run
BufReturn ==
  /\ buf_last.op # "idle"
  /\ buf_last.res # "Panic"
  /\ buf_last' = [op |-> "idle", arg |-> 0, data |-> <<>>, pre |-> <<>>,
                  res |-> "Ok", out |-> <<>>, zero_copy |-> FALSE,
                  prev |-> IF buf_last.op = "new" THEN NoCall
                           ELSE [op |-> buf_last.op, data |-> buf_last.data,
                                 pre |-> buf_last.pre]]
  /\ UNCHANGED <<bufs, cursor_vars>>

BufNext ==
  \/ BufReturn
  \/ PushChunk
  \/ Advance
  \/ CopyToBytes
  \/ Chunk
  \/ ChunksVectored

BufSpec == BufInit /\ [][BufNext]_vars

\* ---- the loops of read_impl and of advance, one iteration per step ----

\* no read call is running / no advance call is running
ReadIdle ==
  [pc |-> "idle", op |-> "", nslots |-> 0, slot |-> 0, len |-> 0,
   buf_pos |-> 0, iters |-> 0, first_chunk |-> 0]
AdvanceIdle == [pc |-> "idle", amt |-> 0, iters |-> 0, pre_chunks |-> 0]

\* read_impl is entered for destination number slot, of length len
EnterReadImpl(op, nslots, slot, len) ==
  [pc |-> "loop", op |-> op, nslots |-> nslots, slot |-> slot, len |-> len,
   buf_pos |-> 0, iters |-> 0, first_chunk |-> chunk]

\* either a cursor over a list, or a list its owner advances
StepInit ==
  \E lens \in LenSeqs : \E cursor \in BOOLEAN :
    /\ inner = IF cursor THEN from_iter(MkItems(lens, 0)) ELSE <<>>
    /\ bufs = IF cursor THEN BufList_new
              ELSE from_iter([i \in 1 .. Len(lens) |-> NewBytes(i, lens[i])])
    /\ start_pos = CursorData_new(inner).start_pos
    /\ chunk = CursorData_new(inner).chunk
    /\ pos = CursorData_new(inner).pos
    /\ upstream_pos = 0
    /\ last = ReadIdle
    /\ buf_last = AdvanceIdle

\* the one thread is between calls
StepIdle == last.pc = "idle" /\ buf_last.pc = "idle"

\* Cursor::set_position, to offsets up to one past the end
StepSetPosition ==
  \E p \in 0 .. Min(U64_MAX, num_bytes(data) + 1) :
    LET cd == set_pos(data, p) IN
    /\ StepIdle
    /\ start_pos' = cd.start_pos
    /\ chunk' = cd.chunk
    /\ pos' = cd.pos
    /\ UNCHANGED <<inner, upstream_pos, last, bufs, buf_last>>

\* io::Read::read calls read_impl
ReadCall ==
  \E len \in 0 .. MaxBufLen :
    /\ StepIdle
    /\ last' = EnterReadImpl("read", 1, 1, len)
    /\ UNCHANGED <<inner, start_pos, chunk, pos, upstream_pos, bufs, buf_last>>

\* read_exact_impl: the check of the bytes remaining, then read_impl
ReadExactCall ==
  \E len \in 0 .. MaxBufLen :
    /\ StepIdle
    /\ last' = IF saturating_sub(num_bytes(data), pos) < len
               THEN [ReadIdle EXCEPT !.pc = "returned", !.op = "read_exact"]
               ELSE EnterReadImpl("read_exact", 1, 1, len)
    /\ UNCHANGED <<inner, start_pos, chunk, pos, upstream_pos, bufs, buf_last>>

\* read_vectored_impl: the for loop starts on the first of nslots
\* destinations, if there is one
ReadVectoredCall ==
  \E nslots \in 0 .. MaxSlots : \E len \in 0 .. MaxSlotLen :
    /\ StepIdle
    /\ last' = IF nslots = 0
               THEN [ReadIdle EXCEPT !.pc = "returned", !.op = "read_vectored"]
               ELSE EnterReadImpl("read_vectored", nslots, 1, len)
    /\ UNCHANGED <<inner, start_pos, chunk, pos, upstream_pos, bufs, buf_last>>

\* one iteration of the while loop of read_impl
ReadImplIter ==
  LET g == get_chunk_and_pos(data, inner) IN
  /\ last.pc = "loop"
  /\ last.buf_pos < last.len
  /\ g.some
  /\ LET s == read_step(data, g, Zeroed(last.len), last.buf_pos) IN
     /\ start_pos' = s.cd.start_pos
     /\ chunk' = s.cd.chunk
     /\ pos' = s.cd.pos
     /\ last' = [last EXCEPT !.buf_pos = s.buf_pos, !.iters = @ + 1]
  /\ UNCHANGED <<inner, upstream_pos, bufs, buf_last>>

\* the while loop of read_impl ends and read_impl returns buf_pos; in
\* read_vectored_impl a destination filled to its end is followed by the
\* next one, of a length the caller chose
ReadImplReturn ==
  /\ last.pc = "loop"
  /\ ~(last.buf_pos < last.len /\ get_chunk_and_pos(data, inner).some)
  /\ IF last.op = "read_vectored" /\ ~(last.buf_pos < last.len) /\ last.slot < last.nslots
     THEN \E len \in 0 .. MaxSlotLen :
            last' = EnterReadImpl(last.op, last.nslots, last.slot + 1, len)
     ELSE last' = [last EXCEPT !.pc = "returned"]
  /\ UNCHANGED <<inner, start_pos, chunk, pos, upstream_pos, bufs, buf_last>>

\* the call returns to the caller
StepReturn ==
  /\ last.pc = "returned"
  /\ last' = ReadIdle
  /\ UNCHANGED <<inner, start_pos, chunk, pos, upstream_pos, bufs, buf_last>>

\* Buf::advance is called with an amount the list holds
AdvanceCall ==
  \E amt \in 0 .. remaining(bufs) :
    /\ StepIdle
    /\ buf_last' = [pc |-> "loop", amt |-> amt, iters |-> 0, pre_chunks |-> Len(bufs)]
    /\ UNCHANGED <<bufs, cursor_vars>>

\* one iteration of the while loop of advance
AdvanceIter ==
  /\ buf_last.pc = "loop"
  /\ buf_last.amt > 0
  /\ LET s == advance_step(bufs, buf_last.amt) IN
     /\ bufs' = s.bufs
     /\ buf_last' = [buf_last EXCEPT !.pc = IF s.panicked THEN "panic"
                                            ELSE IF s.returned THEN "idle" ELSE "loop",
                                     !.amt = s.amt,
                                     !.iters = @ + 1]
  /\ UNCHANGED cursor_vars

\* the while loop of advance ends
AdvanceReturn ==
  /\ buf_last.pc = "loop"
  /\ ~(buf_last.amt > 0)
  /\ buf_last' = [buf_last EXCEPT !.pc = "idle"]
  /\ UNCHANGED <<bufs, cursor_vars>>

StepNext ==
  \/ StepSetPosition
  \/ ReadCall
  \/ ReadExactCall
  \/ ReadVectoredCall
  \/ ReadImplIter
  \/ ReadImplReturn
  \/ StepReturn
  \/ AdvanceCall
  \/ AdvanceIter
  \/ AdvanceReturn

\* the code is synchronous and nothing blocks or suspends it: a call that
\* has been entered goes on executing
StepFairness ==
  /\ WF_vars(ReadImplIter)
  /\ WF_vars(ReadImplReturn)
  /\ WF_vars(AdvanceIter)
  /\ WF_vars(AdvanceReturn)

StepSpec == StepInit /\ [][StepNext]_vars /\ StepFairness


\* ----------------------------------------------------------------- claims
\* number of chunks, and the total length of the logical stream
n == Len(inner)
total == Len(bytes)

\* CursorOp::assert_io_error_eq: equal values, or errors of the same kind
assert_io_error_eq(a, b) ==
  /\ a.kind = b.kind
  /\ a.kind = "Ok" => a.val = b.val

CompareOps == {"set_position", "seek", "read", "read_vectored", "read_exact", "consume"}

\* C1: after every set_position, seek, read, read_vectored, read_exact and
\* consume that returns, the Cursor and the reference cursor over the
\* concatenation agree on the returned value or error kind, on the bytes
\* written to the destination and on the position.
C1_Equivalence ==
  /\ pos = upstream_pos
  /\ (last.op \in CompareOps /\ last.res.kind # "Panic") =>
       /\ assert_io_error_eq(last.res, last.up_res)
       /\ last.out = last.up_out

\* C1 witness: a read_vectored that copied bytes from three chunks
C1_Witness ==
  /\ last.op = "read_vectored"
  /\ last.res.val >= 3
  /\ chunk >= last.pre_chunk + 2
  /\ last.out = last.up_out

\* C2: the chunk index c is in [0, n], start[c] <= offset, and
\* offset < start[c + 1] whenever c < n.
C2_ChunkBrackets ==
  /\ chunk \in 0 .. n
  /\ start_pos[chunk + 1] <= pos
  /\ chunk < n => pos < start_pos[chunk + 2]
  /\ assert_invariants(data)

\* C2 witness: a backward move over at least two chunks that lands inside a
\* chunk, not on its start
C2_Witness ==
  /\ last.op \in {"set_position", "seek"}
  /\ chunk + 2 <= last.pre_chunk
  /\ chunk < n
  /\ start_pos[chunk + 1] < pos

\* C3: whenever the offset is at or past the total length, the chunk index is
\* n, however far past the end the offset is and also after a read that
\* consumed the last byte.
C3_PastEndIsSentinel ==
  pos >= total => chunk = n

\* C3 witness: a read that consumed the last byte of a non-empty list
C3_Witness ==
  /\ last.op = "read"
  /\ last.res.val > 0
  /\ last.pre_pos < total
  /\ pos = total
  /\ chunk = n

\* C4: read(dest) at offset p copies k = min(len(dest), max(0, total - p))
\* bytes in one call: dest[0..k) is bytes [p, p + k) of the concatenation,
\* dest[k..) is untouched and the offset afterwards is p + k.
C4_ReadCopies ==
  last.op = "read" =>
    LET p == last.pre_pos
        len == last.arg
        k == Min(len, Max(0, total - p))
        dest == last.out[1]
    IN
    /\ last.res = Ok(k)
    /\ Len(dest) = len
    /\ \A i \in 1 .. k : dest[i] = bytes[p + i]
    /\ \A i \in (k + 1) .. len : dest[i] = 0
    /\ pos = p + k

\* C4 witness: a read that starts inside a chunk, crosses two chunk boundaries
\* and ends before the destination is full
C4_Witness ==
  /\ last.op = "read"
  /\ last.pre_pos > start_pos[last.pre_chunk + 1]
  /\ chunk >= last.pre_chunk + 2
  /\ 0 < last.res.val
  /\ last.res.val < last.arg

\* C5 as stated: read never fails and returns 0 exactly when the offset is at
\* or past the total length, for every destination.
C5_ZeroIffAtEnd ==
  last.op = "read" =>
    /\ last.res.kind = "Ok"
    /\ last.res.val = 0 <=> last.pre_pos >= total

\* C5 amended: read never fails and returns 0 exactly when the offset is at or
\* past the total length or the destination has length zero.
C5_ZeroIffAtEndOrEmptyDest ==
  last.op = "read" =>
    /\ last.res.kind = "Ok"
    /\ last.res.val = 0 <=> (last.pre_pos >= total \/ last.arg = 0)

\* C5 witness: a read into a zero-length destination before the end
C5_Witness ==
  /\ last.op = "read"
  /\ last.arg = 0
  /\ last.pre_pos < total
  /\ last.res = Ok(0)

\* C6: seek(origin, delta) computes base + delta with base 0 (Start), the
\* total length (End) or the current offset (Current); it fails with the
\* invalid-seek error exactly when that result is negative or above the
\* offset type's maximum, and otherwise moves to the result and returns it;
\* results past the total length succeed and seek(Start, n) never fails.
C6_Seek ==
  last.op = "seek" =>
    LET base == IF last.style = "Start" THEN 0
                ELSE IF last.style = "End" THEN total
                ELSE last.pre_pos
        result == base + last.arg
    IN
    /\ IF result < 0 \/ result > U64_MAX
       THEN last.res = Err("InvalidInput")
       ELSE last.res = Ok(result) /\ pos = result
    /\ last.style = "Start" => last.res.kind = "Ok"

\* C6 witness: a relative seek whose result is above the offset type's maximum
C6_Witness ==
  /\ last.op = "seek"
  /\ last.style = "Current"
  /\ last.arg > 0
  /\ last.pre_pos + last.arg > U64_MAX
  /\ last.res.kind = "InvalidInput"

SeekFailed == last.op = "seek" /\ last.res.kind = "InvalidInput"

\* C7: a seek that fails with the invalid-seek error leaves the whole cursor
\* (offset, chunk index, start index and list) as it was before the call.
C7_FailedSeekChangesNothing ==
  [][SeekFailed' => UNCHANGED <<inner, start_pos, chunk, pos>>]_vars

\* C7 witness: a failed seek to a negative position from inside the list
C7_Witness ==
  /\ SeekFailed
  /\ last.arg < 0
  /\ pos > 0
  /\ pos < total
  /\ chunk > 0

\* C8: read_exact(dest) at offset p fails with the unexpected-end-of-data
\* error exactly when max(0, total - p) < len(dest), carrying that remaining
\* count and len(dest); otherwise it fills dest with bytes [p, p + len(dest))
\* and advances the offset by len(dest).  A zero-length dest always succeeds.
C8_ReadExact ==
  last.op = "read_exact" =>
    LET p == last.pre_pos
        len == last.arg
        rem == Max(0, total - p)
        dest == last.out[1]
    IN
    /\ IF rem < len
       THEN last.res = [kind |-> "UnexpectedEof", val |-> 0, remaining |-> rem, buf_len |-> len]
       ELSE /\ last.res = Unit
            /\ dest = [i \in 1 .. len |-> bytes[p + i]]
            /\ pos = p + len
    /\ len = 0 => last.res = Unit

\* C8 witness: read_exact of one byte from an offset past the end fails with
\* remaining = 0, requested = 1
C8_Witness ==
  /\ last.op = "read_exact"
  /\ total > 0
  /\ last.pre_pos > total
  /\ last.res = [kind |-> "UnexpectedEof", val |-> 0, remaining |-> 0, buf_len |-> 1]

\* C9: a read_exact that fails with the unexpected-end-of-data error changes
\* nothing: offset, chunk index and every byte of the destination are as
\* before the call.
C9_FailedReadExactChangesNothing ==
  (last.op = "read_exact" /\ last.res.kind = "UnexpectedEof") =>
    /\ pos = last.pre_pos
    /\ chunk = last.pre_chunk
    /\ last.out = <<Zeroed(last.arg)>>

\* C9 witness: a failed read_exact issued while some bytes, but too few, remain
C9_Witness ==
  /\ last.op = "read_exact"
  /\ last.res.kind = "UnexpectedEof"
  /\ last.res.remaining > 0
  /\ last.pre_pos > start_pos[last.pre_chunk + 1]

\* the count read gives slot i of a vectored read when avail bytes remain
RECURSIVE SumTo(_, _)
SumTo(lens, i) == IF i = 0 THEN 0 ELSE lens[i] + SumTo(lens, i - 1)
SlotCount(lens, i, avail) == Min(lens[i], Max(0, avail - SumTo(lens, i - 1)))

\* C10: read_vectored(slots) applies read slot by slot and stops after the
\* first slot that is filled only partially; the result is the sum of the
\* per-slot counts, which is min(sum of slot lengths, max(0, total - offset));
\* the slots together hold what one read into their concatenation gives;
\* zero-length slots do not stop the iteration and the slots after the
\* stopping slot are untouched.
C10_ReadVectored ==
  last.op = "read_vectored" =>
    LET p == last.pre_pos
        lens == last.lens
        avail == Max(0, total - p)
        want == SumTo(lens, Len(lens))
        k == Min(want, avail)
        before == [start_pos |-> start_pos, chunk |-> last.pre_chunk, pos |-> p]
    IN
    /\ last.res = Ok(k)
    /\ k = SumTo([i \in 1 .. Len(lens) |-> SlotCount(lens, i, avail)], Len(lens))
    /\ pos = p + k
    /\ Len(last.out) = Len(lens)
    /\ \A i \in 1 .. Len(lens) :
         /\ Len(last.out[i]) = lens[i]
         /\ \A j \in 1 .. lens[i] :
              last.out[i][j] = IF j <= SlotCount(lens, i, avail)
                               THEN bytes[p + SumTo(lens, i - 1) + j] ELSE 0
    /\ Concat(last.out) = read_impl(before, inner, Zeroed(want)).buf
    /\ \A s \in 1 .. Len(lens) :
         SlotCount(lens, s, avail) < lens[s] =>
           \A i \in (s + 1) .. Len(lens) : last.out[i] = Zeroed(lens[i])

\* C10 witness: a zero-length slot, then a slot filled only partially, then a
\* slot that stays untouched
C10_Witness ==
  /\ last.op = "read_vectored"
  /\ Len(last.lens) = 3
  /\ last.lens[1] = 0
  /\ last.lens[2] = 2
  /\ last.lens[3] > 0
  /\ last.res = Ok(1)
  /\ last.out[3] = Zeroed(last.lens[3])

\* the cursor as it was before the last call
before == [start_pos |-> start_pos, chunk |-> last.pre_chunk, pos |-> last.pre_pos]

\* the end of the chunk that holds logical offset p, found by a scan of the
\* list from its first chunk; the total length when p is past the end
RECURSIVE ChunkEndFrom(_, _, _)
ChunkEndFrom(chunks, from, p) ==
  IF chunks = <<>> THEN from
  ELSE IF p < from + Len(Head(chunks)) THEN from + Len(Head(chunks))
  ELSE ChunkEndFrom(Tail(chunks), from + Len(Head(chunks)), p)
ChunkEnd(p) == ChunkEndFrom(inner, 0, p)

\* C11: fill_buf returns exactly the bytes of the current chunk from the
\* current offset to the end of that chunk; the view is empty if and only if
\* the offset is at or past the total length; fill_buf changes neither offset
\* nor chunk index.
C11_FillBuf ==
  last.op = "fill_buf" =>
    LET view == last.out[1] IN
    /\ view = [i \in 1 .. Max(0, ChunkEnd(pos) - pos) |-> bytes[pos + i]]
    /\ (view = <<>>) <=> (pos >= total)
    /\ pos = last.pre_pos
    /\ chunk = last.pre_chunk

\* C11 witness: fill_buf inside a later chunk, past that chunk's first byte
C11_Witness ==
  /\ last.op = "fill_buf"
  /\ chunk >= 1
  /\ chunk < n
  /\ pos > start_pos[chunk + 1]
  /\ Len(last.out[1]) >= 1

\* C12 as stated: for every cursor state and every n >= 0 that both calls
\* accept, consume(n) and seek(Current, +n) either both succeed or both
\* fail, and leave the same offset and the same chunk index; neither copies
\* bytes.
C12_ConsumeIsRelativeSeek ==
  (last.op = "consume" /\ last.arg <= I64_MAX) =>
    LET s == seek_impl(before, "Current", last.arg) IN
    /\ (last.res.kind = "Ok") <=> (s.res.kind = "Ok")
    /\ pos = s.cd.pos
    /\ chunk = s.cd.chunk
    /\ last.out = <<>>

\* C13: seek(Current, 0) succeeds, returns the current offset and leaves
\* offset and chunk index as they were.
C13_ZeroSeek ==
  (last.op = "seek" /\ last.style = "Current" /\ last.arg = 0) =>
    /\ last.res = Ok(last.pre_pos)
    /\ pos = last.pre_pos
    /\ chunk = last.pre_chunk

\* C13 witness: a zero-delta relative seek issued inside a later chunk
C13_Witness ==
  /\ last.op = "seek"
  /\ last.style = "Current"
  /\ last.arg = 0
  /\ chunk >= 1
  /\ chunk < n
  /\ pos > start_pos[chunk + 1]

\* what a cursor built anew over the list and moved to offset p reads into a
\* destination of the given length
FreshRead(p, len) ==
  read_impl(set_pos(CursorData_new(inner), p), inner, Zeroed(len)).buf

ReadIsRepeatable ==
  last.op = "read" => last.out[1] = FreshRead(last.pre_pos, last.arg)

\* C14: no Cursor operation changes the wrapped list's chunks or the start
\* index built at construction, and the bytes a read returns depend on the
\* offset it is issued at and its length only, not on the earlier operations.
C14_ListAndIndexFixed ==
  /\ [][UNCHANGED <<inner, start_pos>>]_vars
  /\ []ReadIsRepeatable

\* C14 witness: a read that copied bytes, issued after the cursor had moved
\* into a later chunk
C14_Witness ==
  /\ last.op = "read"
  /\ last.pre_chunk >= 1
  /\ last.res.val >= 2
  /\ start_pos = CursorData_new(inner).start_pos

\* ---- claims about the list mutated through push_chunk and Buf ----

\* the byte values of a Bytes, whatever storage holds them
Values(b) == [j \in 1 .. Len(b) |-> b[j].b]

\* a sequence without its first k elements
Drop(q, k) == SubSeq(q, k + 1, Len(q))

\* the list before the last call
pre_bufs == buf_last.pre

\* C15: after any sequence of push_chunk, advance and copy_to_bytes calls that
\* respect their preconditions, no stored chunk has zero length and
\* remaining() equals the number of bytes the stored chunks hold.
C15_NoEmptyChunk ==
  buf_last.res # "Panic" =>
    /\ \A j \in 1 .. Len(bufs) : Len(bufs[j]) > 0
    /\ remaining(bufs) = Len(Concat(bufs))

\* C15 witness: a list that has been pushed to, advanced and copied from, the
\* last two calls having cut chunks at their front
C15_Witness ==
  /\ buf_last.op = "copy_to_bytes"
  /\ buf_last.res = "Ok"
  /\ buf_last.arg >= 1
  /\ buf_last.prev.op = "advance"
  /\ Len(bufs) >= 2
  /\ bufs[1][1].i > 1

\* C16: push_chunk of zero-length data leaves the chunks and remaining() as
\* they were; push_chunk of non-empty data adds exactly one chunk holding
\* those bytes at the tail, the earlier chunks unchanged, and remaining()
\* grows by the data's length; in both cases the returned handle holds
\* exactly the bytes of the data.
C16_PushChunk ==
  buf_last.op = "push_chunk" =>
    LET x == buf_last.data IN
    /\ buf_last.res = "Ok"
    /\ buf_last.out = x
    /\ Len(x) = 0 => bufs = pre_bufs
    /\ Len(x) > 0 => /\ num_chunks(bufs) = num_chunks(pre_bufs) + 1
                     /\ SubSeq(bufs, 1, Len(pre_bufs)) = pre_bufs
                     /\ bufs[Len(bufs)] = x
    /\ remaining(bufs) = remaining(pre_bufs) + Len(x)

\* C16 witness: non-empty data pushed onto a list that already holds chunks
C16_Witness ==
  /\ buf_last.op = "push_chunk"
  /\ Len(buf_last.data) >= 2
  /\ Len(pre_bufs) >= 2

\* C17: advance(n) with n <= remaining() removes exactly the first n bytes:
\* remaining() decreases by n, the contents are the previous contents
\* without their first n bytes, the front chunks consumed to their end are
\* removed, at most one chunk is cut at its front and the later chunks are
\* kept as they were; advance(0) changes nothing.
C17_Advance ==
  (buf_last.op = "advance" /\ buf_last.arg <= remaining(pre_bufs)) =>
    LET k == Len(pre_bufs) - Len(bufs) IN
    /\ buf_last.res = "Ok"
    /\ remaining(bufs) = remaining(pre_bufs) - buf_last.arg
    /\ Concat(bufs) = Drop(Concat(pre_bufs), buf_last.arg)
    /\ k >= 0
    /\ \A j \in 1 .. Len(bufs) :
         /\ Len(bufs[j]) > 0
         /\ j >= 2 => bufs[j] = pre_bufs[k + j]
    /\ buf_last.arg = 0 => bufs = pre_bufs

\* C17 witness: an advance that removed a whole front chunk and cut the next
C17_Witness ==
  /\ buf_last.op = "advance"
  /\ buf_last.res = "Ok"
  /\ Len(pre_bufs) = 3
  /\ Len(bufs) = 2
  /\ Len(bufs[1]) < Len(pre_bufs[2])

\* C18: copy_to_bytes(len) with len <= remaining() returns exactly the first
\* len bytes in order and consumes them: remaining() decreases by len and the
\* contents are the previous contents without their first len bytes, whether
\* the range lies in the front chunk or spans chunks.
C18_CopyToBytes ==
  (buf_last.op = "copy_to_bytes" /\ buf_last.arg <= remaining(pre_bufs)) =>
    /\ buf_last.res = "Ok"
    /\ Values(buf_last.out) = Values(SubSeq(Concat(pre_bufs), 1, buf_last.arg))
    /\ remaining(bufs) = remaining(pre_bufs) - buf_last.arg
    /\ Concat(bufs) = Drop(Concat(pre_bufs), buf_last.arg)

\* C18 witness: copy_to_bytes(4) on chunks of 2 and 3 bytes returns the first
\* 4 bytes and leaves one chunk of 1 byte
C18_Witness ==
  /\ buf_last.op = "copy_to_bytes"
  /\ buf_last.arg = 4
  /\ Len(pre_bufs) = 2
  /\ Len(pre_bufs[1]) = 2
  /\ Len(pre_bufs[2]) = 3
  /\ Len(buf_last.out) = 4
  /\ Len(bufs) = 1
  /\ Len(bufs[1]) = 1

\* C19: copy_to_bytes(len) returns a view sharing the front chunk's storage
\* exactly when the list is non-empty and len is at most the front chunk's
\* length, and a newly allocated copy of exactly len bytes in every other
\* case; the sharing path is never taken when the range crosses a chunk
\* boundary.
C19_ZeroCopyIffFits ==
  (buf_last.op = "copy_to_bytes" /\ buf_last.res = "Ok") =>
    LET fits == pre_bufs # <<>> /\ buf_last.arg <= Len(pre_bufs[1]) IN
    /\ buf_last.zero_copy <=> fits
    /\ fits => buf_last.out = SubSeq(pre_bufs[1], 1, buf_last.arg)
    /\ ~fits => /\ Len(buf_last.out) = buf_last.arg
                /\ \A j \in 1 .. Len(buf_last.out) :
                     /\ buf_last.out[j].a = 0
                     /\ buf_last.out[j].i = j
                     /\ buf_last.out[j].b = Concat(pre_bufs)[j].b

\* C19 witness: a request one byte longer than the front chunk, copied
C19_Witness ==
  /\ buf_last.op = "copy_to_bytes"
  /\ buf_last.res = "Ok"
  /\ Len(pre_bufs) >= 2
  /\ buf_last.arg = Len(pre_bufs[1]) + 1
  /\ ~buf_last.zero_copy

\* the last call is a copy_to_bytes for as many bytes as the push_chunk that
\* came immediately before it was given
PushThenCopy ==
  /\ buf_last.op = "copy_to_bytes"
  /\ buf_last.prev.op = "push_chunk"
  /\ buf_last.arg = Len(buf_last.prev.data)

\* C20 as stated: push_chunk(x) followed immediately by
\* copy_to_bytes(len(x)) returns bytes equal to x, whatever the list held
\* before the push, sharing x's storage when x occupies exactly one chunk.
C20_RoundTripAnyList ==
  PushThenCopy =>
    LET x == buf_last.prev.data IN
    /\ buf_last.res = "Ok"
    /\ Values(buf_last.out) = Values(x)
    /\ Len(x) > 0 => buf_last.out = x

\* C20: push_chunk(x) on an empty list followed immediately by
\* copy_to_bytes(len(x)) returns bytes equal to x, sharing the storage of the
\* one chunk x occupies when x is not empty.
C20_RoundTripFromEmpty ==
  (PushThenCopy /\ buf_last.prev.pre = <<>>) =>
    LET x == buf_last.prev.data IN
    /\ buf_last.res = "Ok"
    /\ Values(buf_last.out) = Values(x)
    /\ Len(x) > 0 => (buf_last.zero_copy /\ buf_last.out = x)
    /\ bufs = <<>>

\* C20 witness: non-empty data pushed onto the empty list and copied out
C20_Witness ==
  /\ PushThenCopy
  /\ buf_last.prev.pre = <<>>
  /\ Len(buf_last.prev.data) >= 2
  /\ Len(buf_last.out) >= 2

\* C21: advance(n) with n > remaining() and copy_to_bytes(len) with
\* len > remaining() end in a panic, for every list; neither returns.
C21_OverRequestPanics ==
  (buf_last.op \in {"advance", "copy_to_bytes"} /\ buf_last.arg > remaining(pre_bufs)) =>
    buf_last.res = "Panic"

\* C21 witness: an advance past the end of a list of two chunks
C21_Witness ==
  /\ buf_last.op = "advance"
  /\ Len(pre_bufs) >= 2
  /\ buf_last.arg > remaining(pre_bufs)
  /\ buf_last.res = "Panic"

\* C22: chunks_vectored(slots) fills min(number of slots, number of chunks)
\* slots and returns that count; filled slot i views the whole of chunk i in
\* queue order, the slots after the count are left as they were, no slots
\* gives 0, and the list is not modified.
C22_ChunksVectored ==
  buf_last.op = "chunks_vectored" =>
    LET r == buf_last.out IN
    /\ buf_last.res = "Ok"
    /\ r.n = Min(buf_last.arg, num_chunks(pre_bufs))
    /\ Len(r.iovs) = buf_last.arg
    /\ \A i \in 1 .. Len(r.iovs) :
         r.iovs[i] = IF i <= r.n THEN pre_bufs[i] ELSE Untouched
    /\ buf_last.arg = 0 => r.n = 0
    /\ bufs = pre_bufs

\* C22 witness: three slots over two chunks, the front one cut by an advance
C22_Witness ==
  /\ buf_last.op = "chunks_vectored"
  /\ buf_last.arg = 3
  /\ Len(pre_bufs) = 2
  /\ pre_bufs[1][1].i > 1
  /\ buf_last.out.n = 2

\* C23: chunk() returns the bytes of the first stored chunk, or an empty view
\* when no chunk is stored; it is empty if and only if remaining() = 0, and
\* it does not modify the list.
C23_Chunk ==
  buf_last.op = "chunk" =>
    /\ buf_last.res = "Ok"
    /\ buf_last.out = IF num_chunks(pre_bufs) = 0 THEN <<>> ELSE pre_bufs[1]
    /\ (buf_last.out = <<>>) <=> (remaining(pre_bufs) = 0)
    /\ bufs = pre_bufs

\* C23 witness: chunk() on a list of two chunks whose front chunk has been
\* cut by the call before
C23_Witness ==
  /\ buf_last.op = "chunk"
  /\ Len(pre_bufs) >= 2
  /\ pre_bufs[1][1].i > 1
  /\ buf_last.prev.op \in {"advance", "copy_to_bytes"}
  /\ Len(buf_last.out) >= 1

\* the chunk a scan of the start positions from the first one finds for
\* offset p: the first c with p < start[c + 1], the number of chunks if none
RECURSIVE LinearScan(_, _, _)
LinearScan(sp, p, c) ==
  IF c + 1 >= Len(sp) THEN c
  ELSE IF p < sp[c + 2] THEN c
  ELSE LinearScan(sp, p, c + 1)

\* C24: from any reachable cursor state, set_position(p) leaves offset = p
\* and the chunk index a linear scan of the start positions gives: the unique
\* c with start[c] <= p < start[c + 1], or n when p >= total; whatever the
\* state before and the path set_pos takes.
C24_PathIndependent ==
  last.op = "set_position" =>
    /\ pos = last.arg
    /\ chunk = LinearScan(start_pos, last.arg, 0)
    /\ chunk < n => (start_pos[chunk + 1] <= pos /\ pos < start_pos[chunk + 2])
    /\ (chunk = n) <=> (pos >= total)

\* C24 witness: a backward move over at least two chunks that lands inside a
\* chunk, found by the search of the prefix
C24_Witness ==
  /\ last.op = "set_position"
  /\ last.pre_chunk >= chunk + 2
  /\ last.pre_pos > pos
  /\ pos > start_pos[chunk + 1]

\* C25: construction over a list of n chunks gives a start index of length
\* n + 1 with start[0] = 0, start[i] = the sum of the lengths of chunks
\* 0..i-1, start[n] = the total length, strictly increasing entries, offset 0
\* and chunk index 0; for the empty list the index is [0] and chunk index 0
\* is the sentinel.
C25_Construction ==
  last.op = "new" =>
    /\ Len(start_pos) = n + 1
    /\ start_pos[1] = 0
    /\ \A i \in 0 .. n : start_pos[i + 1] = Len(Concat(SubSeq(inner, 1, i)))
    /\ start_pos[n + 1] = total
    /\ \A i \in 1 .. n : start_pos[i] < start_pos[i + 1]
    /\ pos = 0
    /\ chunk = 0
    /\ n = 0 => (start_pos = <<0>> /\ chunk = n)

\* C25 witness: a cursor newly built over three chunks of different lengths
C25_Witness ==
  /\ last.op = "new"
  /\ n = 3
  /\ Len(inner[1]) # Len(inner[2])
  /\ Len(inner[2]) # Len(inner[3])

\* C26: no assertion or bounds check of the cursor fails in a reachable
\* state: whatever offset set_pos is given, an insertion point its forward
\* or backward search reports is at least 1; when the chunk index names a
\* chunk the offset is below the total length; and the offset in the chunk
\* is below the chunk's length, so read_impl's slices are in bounds.
C26_ChecksHold ==
  /\ \A p \in U64 : set_pos_checks(data, p)
  /\ get_chunk_and_pos_checks(data, inner)
  /\ \A room \in 1 .. MaxBufLen : read_impl_checks(data, inner, room)
  /\ get_chunk(inner, chunk).some => pos - start_pos[chunk + 1] < Len(inner[chunk + 1])

\* C26 witness: a forward move over a whole chunk into the inside of a later
\* one, found by the search of the suffix
C26_Witness ==
  /\ last.op = "set_position"
  /\ chunk >= last.pre_chunk + 2
  /\ chunk < n
  /\ pos > start_pos[chunk + 1]

\* a loop of read_impl or of advance is running
InLoop == last.pc = "loop" \/ buf_last.pc = "loop"

\* every iteration of read_impl so far copied at least one byte and moved on
\* by at most the chunks from the one the call started on to the last; every
\* iteration of advance removed a chunk or was the last one
IterationsBounded ==
  /\ last.pc = "loop" =>
       /\ last.iters <= last.buf_pos
       /\ last.iters <= Len(inner) - last.first_chunk
  /\ buf_last.pc = "loop" => buf_last.iters <= buf_last.pre_chunks - Len(bufs)
  /\ buf_last.pc # "panic"

\* C27: every read, read_vectored and read_exact call terminates, each
\* iteration of the read loop copying at least one byte, in at most as many
\* iterations as there are chunks from the current one to the end; every
\* advance(n) with n <= remaining() terminates after removing at most all
\* stored chunks.
C27_Terminates ==
  /\ InLoop ~> ~InLoop
  /\ []IterationsBounded

\* C27 witness: read_impl in its third iteration, on the third chunk
C27_Witness ==
  /\ last.pc = "loop"
  /\ last.iters = 2
  /\ last.first_chunk = 0
  /\ chunk = 2
  /\ last.buf_pos < last.len
  /\ chunk < Len(inner)

next_start_of(c) == OffsetFrom(get(start_pos, c + 1))

\* the offsets set_pos had to compare in the last call and has to in the next
StateOffsets ==
  {Value(pos), Value(last.pre_pos), next_start_of(chunk), next_start_of(last.pre_chunk)}

\* C29: Offset is totally ordered, Eof above Value(v) for every v and
\* Value(a) < Value(b) exactly when a < b; an absent next start converts to
\* Eof, so on the sentinel index the same-chunk test Value(p) < next_start
\* is true for every p.
C29_OffsetOrder ==
  /\ \A a \in StateOffsets : ~OffsetLt(a, a)
  /\ \A a, b \in StateOffsets :
       /\ a # b => (OffsetLt(a, b) \/ OffsetLt(b, a))
       /\ ~(OffsetLt(a, b) /\ OffsetLt(b, a))
       /\ (~a.eof /\ ~b.eof) => (OffsetLt(a, b) <=> a.v < b.v)
  /\ \A a, b, c \in StateOffsets : (OffsetLt(a, b) /\ OffsetLt(b, c)) => OffsetLt(a, c)
  /\ \A v \in U64 : OffsetLt(Value(v), Eof) /\ ~OffsetLt(Eof, Value(v))
  /\ OffsetFrom(None) = Eof
  /\ \A v \in {pos, last.pre_pos} : OffsetFrom(Some(v)) = Value(v)
  /\ chunk = Len(start_pos) - 1 =>
       /\ next_start_of(chunk) = Eof
       /\ \A p \in U64 : OffsetLt(Value(p), next_start_of(chunk))

\* C29 witness: a forward set_position issued on the sentinel index of a
\* list of two chunks or more
C29_Witness ==
  /\ last.op = "set_position"
  /\ n >= 2
  /\ last.pre_chunk = n
  /\ last.arg > last.pre_pos
  /\ chunk = n

====
